---- MODULE Spec2Model ----
(***************************************************************************)
(* A model of WeatherApplication                                           *)
(* (src/src/applications/WeatherApplication.ts): the weather record an     *)
(* instance holds (currentWeather), the persisted setting lastWeatherData  *)
(* it is loaded from and saved to, and the handlers that read and write    *)
(* them: the constructor, setWeather, updateDateTime,                      *)
(* onWeatherRegenerateClick and activateListeners.                         *)
(*                                                                         *)
(* moduleSettings.set returns a promise: a save is issued by a handler and *)
(* completes, or fails, in a later step. Saves complete in the order they  *)
(* were issued. The value saved is the record as it was when set was       *)
(* called, and the value moduleSettings.get returns is a copy.             *)
(***************************************************************************)
EXTENDS Integers, Sequences, FiniteSets, TLC

VARIABLES
  currentWeather,      \* this.currentWeather: NoWeather (undefined) or a WeatherData
  lastWeatherData,     \* the persisted setting SettingKeys.lastWeatherData
  pendingSets,         \* moduleSettings.set calls issued and not yet completed, oldest first
  renderQueued,        \* this.render() was called and activateListeners has not run yet
  regenerateListener,  \* onWeatherRegenerateClick is attached to the rendered button
  last,                \* what the most recent handler call did (observation only)
  history              \* what a specification keeps of the calls before (observation only)

vars == <<currentWeather, lastWeatherData, pendingSets, renderQueued, regenerateListener, last,
          history>>

----------------------------------------------------------------------------
(* Bounds of the model *)

\* at most this many moduleSettings.set calls are in flight at once
MaxPending == 1
\* the dates hasDateChanged is tried on differ from BaseDate in at most this many fields
MaxChangedFields == 2

----------------------------------------------------------------------------
(* Values *)

\* the two JavaScript values isDefined rejects
Null == -1
Undefined == -2

\* an absent WeatherData (this.currentWeather undefined, or no saved setting)
NoWeather == [absent |-> "weather"]
\* an absent date (WeatherData.date not set, or updateDateTime(null))
NoDate == [absent |-> "date"]

DateFields == {"second", "minute", "day", "month", "year"}

\* a complete date
BaseDate == [second |-> 0, minute |-> 0, day |-> 1, month |-> 1, year |-> 1000]

\* the dates the calendar delivers to updateDateTime: the complete date, a later
\* minute of the same day, the next day, and a partial date
DateInputs ==
  {BaseDate,
   [BaseDate EXCEPT !.minute = 1],
   [BaseDate EXCEPT !.day = 2],
   [BaseDate EXCEPT !.day = Undefined]}

\* the dates hasDateChanged is tried on: each field is BaseDate's, the next number,
\* null or undefined, and at most MaxChangedFields fields are not BaseDate's
FieldValues(f) == {BaseDate[f], BaseDate[f] + 1, Null, Undefined}
ClassifyDates ==
  {d \in [DateFields -> UNION {FieldValues(f) : f \in DateFields}] :
     /\ \A f \in DateFields : d[f] \in FieldValues(f)
     /\ Cardinality({f \in DateFields : d[f] # BaseDate[f]}) <= MaxChangedFields}

\* the enum members setWeather passes to generate()
ClimateCold == 0
HumidityModest == 1
SeasonSpring == 0

\* what getClimate / getHumidity / getSeason return: null (no select element) or
\* Number(element.value)
SelectionInputs == {Null, 0}

\* a record saved by an earlier session, dated or not
SavedContent == [climate |-> 1, humidity |-> 1, season |-> 1]
SavedWeather == {[content |-> SavedContent, date |-> d] : d \in {NoDate, BaseDate}}

----------------------------------------------------------------------------
(* The date checks *)

isDefined(value) == value # Undefined /\ value # Null

isDateTimeValid(date) ==
  /\ isDefined(date.second)
  /\ isDefined(date.minute)
  /\ isDefined(date.day)
  /\ isDefined(date.month)
  /\ isDefined(date.year)

\* this.currentWeather?.date
DateOf(weather) == IF weather = NoWeather THEN NoDate ELSE weather.date

\* hasDateChanged with the year left out of the comparison
hasDateChangedIgnoringYear(weather, currentDate) ==
  LET previous == DateOf(weather) IN
  IF (previous = NoDate /\ currentDate # NoDate) \/ (previous # NoDate /\ currentDate = NoDate)
    THEN TRUE
  ELSE IF previous = NoDate /\ currentDate = NoDate
    THEN FALSE
  ELSE IF /\ isDateTimeValid(currentDate)
          /\ \/ currentDate.day # previous.day
             \/ currentDate.month # previous.month
    THEN TRUE
  ELSE FALSE

\* hasDateChanged with the minute compared as well
hasDateChangedByMinute(weather, currentDate) ==
  LET previous == DateOf(weather) IN
  IF (previous = NoDate /\ currentDate # NoDate) \/ (previous # NoDate /\ currentDate = NoDate)
    THEN TRUE
  ELSE IF previous = NoDate /\ currentDate = NoDate
    THEN FALSE
  ELSE IF /\ isDateTimeValid(currentDate)
          /\ \/ currentDate.minute # previous.minute
             \/ currentDate.day # previous.day
             \/ currentDate.month # previous.month
             \/ currentDate.year # previous.year
    THEN TRUE
  ELSE FALSE

\* hasDateChanged with the year alone compared
hasDateChangedByYear(weather, currentDate) ==
  LET previous == DateOf(weather) IN
  IF (previous = NoDate /\ currentDate # NoDate) \/ (previous # NoDate /\ currentDate = NoDate)
    THEN TRUE
  ELSE IF previous = NoDate /\ currentDate = NoDate
    THEN FALSE
  ELSE IF isDateTimeValid(currentDate) /\ currentDate.year # previous.year
    THEN TRUE
  ELSE FALSE

hasDateChanged(weather, currentDate) ==
  LET previous == DateOf(weather) IN
  IF (previous = NoDate /\ currentDate # NoDate) \/ (previous # NoDate /\ currentDate = NoDate)
    THEN TRUE
  ELSE IF previous = NoDate /\ currentDate = NoDate
    THEN FALSE
  ELSE IF /\ isDateTimeValid(currentDate)
          /\ \/ currentDate.day # previous.day
             \/ currentDate.month # previous.month
             \/ currentDate.year # previous.year
    THEN TRUE
  ELSE FALSE

----------------------------------------------------------------------------
(* The collaborators *)

\* generate(climate, humidity, season, previous): the content of a new record. The
\* generator is given no date, and the record it returns carries none.
Generate(climate, humidity, season, previous) ==
  [content |-> [climate |-> climate, humidity |-> humidity, season |-> season],
   date |-> NoDate]

\* a call of generate, as last.generated records it
GenerateCall(climate, humidity, season, previous) ==
  [climate |-> climate, humidity |-> humidity, season |-> season, previous |-> previous]

\* moduleSettings.set(SettingKeys.lastWeatherData, value), awaited by the caller or not
SetCall(value, awaited) == [value |-> value, awaited |-> awaited]

----------------------------------------------------------------------------
(* The observation of the last handler call *)

\* last.repeat: the call (op, gm, arg) repeats the handler call before it, l, which
\* completed; last.priorWrote: and that call issued a save
Repeats(l, op, gm, arg) == l.op = op /\ l.gm = gm /\ l.arg = arg /\ ~l.threw
PriorWrote(l, op, gm, arg) == Repeats(l, op, gm, arg) /\ l.writes # <<>>

\* the history of a specification that keeps none
NoHistory == [kept |-> "nothing"]

\* a handler call that has done nothing yet
Called(op, gm, arg, weather, loaded) ==
  [op |-> op, gm |-> gm, arg |-> arg, before |-> weather, loaded |-> loaded,
   changed |-> FALSE, generated |-> <<>>, writes |-> <<>>, rendered |-> FALSE,
   threw |-> FALSE, repeat |-> FALSE, priorWrote |-> FALSE]

----------------------------------------------------------------------------
(* setWeather, as values: used by the constructor and by the handler *)

\* setWeather generating whatever the client's role
SetWeatherGeneratesAnyClient(weatherData, gm) == weatherData = NoWeather

\* does setWeather() generate a record: nothing is saved and the client is the GM
SetWeatherGenerates(weatherData, gm) == weatherData = NoWeather /\ gm

\* setWeather generating without saving
SetWeatherSavesNothing(weatherData, gm) == FALSE

\* does setWeather() save the record it generated
SetWeatherSaves(weatherData, gm) == SetWeatherGenerates(weatherData, gm)

\* setWeather keeping the record the instance already holds
SetWeatherRecordKeepsLocal(weatherData, gm, weather) ==
  IF weather # NoWeather THEN weather
  ELSE IF weatherData # NoWeather THEN weatherData
  ELSE IF SetWeatherGenerates(weatherData, gm)
    THEN Generate(ClimateCold, HumidityModest, SeasonSpring, NoWeather)
  ELSE weather

\* this.currentWeather after setWeather()
SetWeatherRecord(weatherData, gm, weather) ==
  IF weatherData # NoWeather THEN weatherData
  ELSE IF SetWeatherGenerates(weatherData, gm)
    THEN Generate(ClimateCold, HumidityModest, SeasonSpring, NoWeather)
  ELSE weather

\* the saves setWeather() issues
SetWeatherSets(weatherData, gm, weather) ==
  IF SetWeatherSaves(weatherData, gm)
    THEN <<SetCall(SetWeatherRecord(weatherData, gm, weather), FALSE)>>
    ELSE <<>>

SetWeatherLast(op, weatherData, gm, weather) ==
  [Called(op, gm, NoDate, weather, weatherData) EXCEPT
     !.generated = IF SetWeatherGenerates(weatherData, gm)
                     THEN <<GenerateCall(ClimateCold, HumidityModest, SeasonSpring, NoWeather)>>
                     ELSE <<>>,
     !.writes = IF SetWeatherSaves(weatherData, gm)
                  THEN <<SetWeatherRecord(weatherData, gm, weather)>>
                  ELSE <<>>,
     !.rendered = TRUE]

----------------------------------------------------------------------------
(* The state after construction: the constructor runs setWeather() and render(true) *)

\* new WeatherApplication(...), the record saved being saved (or none), the client
\* being the GM or not
Constructor(saved, gm) ==
  /\ currentWeather = SetWeatherRecord(saved, gm, NoWeather)
  /\ lastWeatherData = saved
  /\ pendingSets = SetWeatherSets(saved, gm, NoWeather)
  /\ renderQueued = TRUE
  /\ regenerateListener = FALSE
  /\ last = SetWeatherLast("constructor", saved, gm, NoWeather)

Init ==
  \E saved \in SavedWeather \cup {NoWeather}, gm \in BOOLEAN :
    /\ Constructor(saved, gm)
    /\ history = NoHistory

----------------------------------------------------------------------------
(* Handlers *)

\* setWeather(), called from outside, the client being the GM or not
SetWeather(gm) ==
  /\ Len(pendingSets) + Len(SetWeatherSets(lastWeatherData, gm, currentWeather)) <= MaxPending
  /\ currentWeather' = SetWeatherRecord(lastWeatherData, gm, currentWeather)
  /\ pendingSets' = pendingSets \o SetWeatherSets(lastWeatherData, gm, currentWeather)
  /\ renderQueued' = TRUE
  /\ last' = SetWeatherLast("setWeather", lastWeatherData, gm, currentWeather)
  /\ UNCHANGED <<lastWeatherData, regenerateListener>>

\* updateDateTime saving whatever the client's role
SavesOnChangeAnyClient(changed, gm) == changed

\* updateDateTime saves when the date has changed and the client is the GM
SavesOnChange(changed, gm) == changed /\ gm

\* the assignment of the date left out
WithDateDropped(weather, currentDate) == weather

\* this.currentWeather.date = currentDate
WithDate(weather, currentDate) == [weather EXCEPT !.date = currentDate]

\* updateDateTime(currentDate), the client being the GM or not
UpdateDateTime(currentDate, gm) ==
  LET changed == hasDateChanged(currentWeather, currentDate)
      called == [Called("updateDateTime", gm, currentDate, currentWeather, NoWeather) EXCEPT
                   !.repeat = Repeats(last, "updateDateTime", gm, currentDate),
                   !.priorWrote = PriorWrote(last, "updateDateTime", gm, currentDate)]
  IN
  IF currentDate = NoDate THEN
    \* if (!currentDate) return;
    /\ last' = called
    /\ UNCHANGED <<currentWeather, lastWeatherData, pendingSets, renderQueued,
                   regenerateListener>>
  ELSE IF SavesOnChange(changed, gm) /\ currentWeather = NoWeather THEN
    \* this.currentWeather.date = currentDate throws a TypeError: the call rejects
    /\ last' = [called EXCEPT !.changed = changed, !.threw = TRUE]
    /\ UNCHANGED <<currentWeather, lastWeatherData, pendingSets, renderQueued,
                   regenerateListener>>
  ELSE IF SavesOnChange(changed, gm) THEN
    \* the date is assigned, the record is saved, and the call awaits the save
    /\ Len(pendingSets) < MaxPending
    /\ currentWeather' = WithDate(currentWeather, currentDate)
    /\ pendingSets' = Append(pendingSets, SetCall(currentWeather', TRUE))
    /\ last' = [called EXCEPT !.changed = changed, !.writes = <<currentWeather'>>]
    /\ UNCHANGED <<lastWeatherData, renderQueued, regenerateListener>>
  ELSE IF changed THEN
    \* the date has changed and nothing is saved: nothing but the render
    /\ renderQueued' = TRUE
    /\ last' = [called EXCEPT !.changed = changed, !.rendered = TRUE]
    /\ UNCHANGED <<currentWeather, lastWeatherData, pendingSets, regenerateListener>>
  ELSE
    \* the date has not changed: the time is refreshed
    /\ currentWeather' = WithDate(currentWeather, currentDate)
    /\ renderQueued' = TRUE
    /\ last' = [called EXCEPT !.rendered = TRUE]
    /\ UNCHANGED <<lastWeatherData, pendingSets, regenerateListener>>

\* the check of the climate left out
ParametersCompleteButClimate(humidity, climate, season) ==
  humidity # Null /\ season # Null

\* the selections tested for truth, which the first option of a select, 0, fails
ParametersCompleteTruthy(humidity, climate, season) ==
  /\ humidity # Null /\ humidity # 0
  /\ climate # Null /\ climate # 0
  /\ season # Null /\ season # 0

\* humidity!==null && climate!==null && season!==null
ParametersComplete(humidity, climate, season) ==
  humidity # Null /\ climate # Null /\ season # Null

\* onWeatherRegenerateClick: a click on the regenerate button, the three selects
\* giving climate, humidity and season, the client being the GM or not at the click
WeatherRegenerateClick(climate, humidity, season, gm) ==
  LET called == Called("onWeatherRegenerateClick", gm,
                       [climate |-> climate, humidity |-> humidity, season |-> season],
                       currentWeather, NoWeather)
  IN
  /\ regenerateListener
  /\ IF ParametersComplete(humidity, climate, season) THEN
       /\ Len(pendingSets) < MaxPending
       /\ currentWeather' = Generate(climate, humidity, season, currentWeather)
       /\ pendingSets' = Append(pendingSets, SetCall(currentWeather', FALSE))
       /\ renderQueued' = TRUE
       /\ last' = [called EXCEPT
                     !.generated = <<GenerateCall(climate, humidity, season, currentWeather)>>,
                     !.writes = <<currentWeather'>>, !.rendered = TRUE]
       /\ UNCHANGED <<lastWeatherData, regenerateListener>>
     ELSE
       /\ last' = called
       /\ UNCHANGED <<currentWeather, lastWeatherData, pendingSets, renderQueued,
                      regenerateListener>>

\* the render completes: activateListeners attaches the regenerate handler to the new
\* button if the client is the GM
ActivateListeners(gm) ==
  /\ renderQueued
  /\ renderQueued' = FALSE
  /\ regenerateListener' = gm
  /\ UNCHANGED <<currentWeather, lastWeatherData, pendingSets, last>>

\* the oldest moduleSettings.set in flight completes, and with it the updateDateTime
\* call that awaits it: render() on success, a rejection on failure
SetCompletes(ok) ==
  /\ pendingSets # <<>>
  /\ pendingSets' = Tail(pendingSets)
  /\ lastWeatherData' = IF ok THEN Head(pendingSets).value ELSE lastWeatherData
  /\ renderQueued' = IF ok /\ Head(pendingSets).awaited THEN TRUE ELSE renderQueued
  /\ UNCHANGED <<currentWeather, regenerateListener, last>>

Next ==
  \/ \E gm \in BOOLEAN : SetWeather(gm) /\ UNCHANGED history
  \/ \E currentDate \in DateInputs \cup {NoDate}, gm \in BOOLEAN :
       UpdateDateTime(currentDate, gm) /\ UNCHANGED history
  \/ \E climate \in SelectionInputs, humidity \in SelectionInputs, season \in SelectionInputs,
        gm \in BOOLEAN :
       WeatherRegenerateClick(climate, humidity, season, gm) /\ UNCHANGED history
  \/ \E gm \in BOOLEAN : ActivateListeners(gm) /\ UNCHANGED history
  \/ \E ok \in BOOLEAN : SetCompletes(ok) /\ UNCHANGED history

Spec == Init /\ [][Next]_vars

----------------------------------------------------------------------------
(* hasDateChanged alone: the instance holds any record, dated with any of         *)
(* ClassifyDates or undated, or none, and hasDateChanged is called on any date.    *)

InitClassify ==
  /\ currentWeather \in
       {NoWeather} \cup
       {[content |-> SavedContent, date |-> d] : d \in ClassifyDates \cup {NoDate}}
  /\ lastWeatherData = currentWeather
  /\ pendingSets = <<>>
  /\ renderQueued = FALSE
  /\ regenerateListener = FALSE
  /\ last = Called("none", FALSE, NoDate, currentWeather, NoWeather)
  /\ history = NoHistory

\* one call of hasDateChanged in a behaviour: it changes nothing, and a second call
\* would see what the first saw
Classify(currentDate) ==
  /\ last.op = "none"
  /\ last' = [Called("hasDateChanged", FALSE, currentDate, currentWeather, NoWeather) EXCEPT
                !.changed = hasDateChanged(currentWeather, currentDate)]
  /\ UNCHANGED <<currentWeather, lastWeatherData, pendingSets, renderQueued,
                 regenerateListener, history>>

NextClassify == \E currentDate \in ClassifyDates \cup {NoDate} : Classify(currentDate)

SpecClassify == InitClassify /\ [][NextClassify]_vars

----------------------------------------------------------------------------
(* The same program, the outcome of the last handler call's save kept: in history.save
   whether the call issued a save and what became of it, in history.rendered whether
   the call has reached this.render(), at once or after the save it awaits *)

\* what is kept of the handler call l, which has run to its return or to its await
CallKept(l) ==
  [save |-> IF l.writes # <<>> THEN "pending" ELSE "none", rendered |-> l.rendered]

\* what is kept once the oldest of the saves in flight sets has completed, ok or not:
\* the save issued last is the last call's, and is the oldest when it is alone
SaveKept(h, sets, ok) ==
  IF h.save = "pending" /\ Len(sets) = 1
    THEN [save |-> IF ok THEN "done" ELSE "failed",
          rendered |-> h.rendered \/ (ok /\ Head(sets).awaited)]
    ELSE h

InitCalls ==
  \E saved \in SavedWeather \cup {NoWeather}, gm \in BOOLEAN :
    /\ Constructor(saved, gm)
    /\ history = CallKept(SetWeatherLast("constructor", saved, gm, NoWeather))

NextCalls ==
  \/ \E gm \in BOOLEAN : SetWeather(gm) /\ history' = CallKept(last')
  \/ \E currentDate \in DateInputs \cup {NoDate}, gm \in BOOLEAN :
       UpdateDateTime(currentDate, gm) /\ history' = CallKept(last')
  \/ \E climate \in SelectionInputs, humidity \in SelectionInputs, season \in SelectionInputs,
        gm \in BOOLEAN :
       WeatherRegenerateClick(climate, humidity, season, gm) /\ history' = CallKept(last')
  \/ \E gm \in BOOLEAN : ActivateListeners(gm) /\ UNCHANGED history
  \/ \E ok \in BOOLEAN : SetCompletes(ok) /\ history' = SaveKept(history, pendingSets, ok)

SpecCalls == InitCalls /\ [][NextCalls]_vars

----------------------------------------------------------------------------
(* The GM's instance given dates only, the last valid date kept: in history.valid the
   last date updateDateTime was given that isDateTimeValid accepts, in history.prior
   the one it had been given before the last call *)

ValidKept(h, currentDate) ==
  [valid |-> IF currentDate # NoDate /\ isDateTimeValid(currentDate)
               THEN currentDate ELSE h.valid,
   prior |-> h.valid]

InitTicks ==
  \E saved \in SavedWeather \cup {NoWeather} :
    /\ Constructor(saved, TRUE)
    /\ history = [valid |-> NoDate, prior |-> NoDate]

NextTicks ==
  \/ \E currentDate \in DateInputs \cup {NoDate} :
       UpdateDateTime(currentDate, TRUE) /\ history' = ValidKept(history, currentDate)
  \/ \E ok \in BOOLEAN : SetCompletes(ok) /\ UNCHANGED history

SpecTicks == InitTicks /\ [][NextTicks]_vars

----------------------------------------------------------------------------
(* One instance, the GM's, given valid dates only; kept: in history.failed whether a
   save has failed, in history.stale whether setWeather has loaded the saved record
   while a save was in flight *)

\* the dates updateDateTime is given that isDateTimeValid accepts
ValidDateInputs == {currentDate \in DateInputs : isDateTimeValid(currentDate)}

\* setWeather reads the record saved while a later one is on its way to the store
LoadsStale(weatherData, sets) == weatherData # NoWeather /\ sets # <<>>

InitGM ==
  \E saved \in SavedWeather \cup {NoWeather} :
    /\ Constructor(saved, TRUE)
    /\ history = [failed |-> FALSE, stale |-> FALSE]

NextGM ==
  \/ /\ SetWeather(TRUE)
     /\ history' = [history EXCEPT !.stale = @ \/ LoadsStale(lastWeatherData, pendingSets)]
  \/ \E currentDate \in ValidDateInputs :
       UpdateDateTime(currentDate, TRUE) /\ UNCHANGED history
  \/ \E climate \in SelectionInputs, humidity \in SelectionInputs, season \in SelectionInputs :
       WeatherRegenerateClick(climate, humidity, season, TRUE) /\ UNCHANGED history
  \/ ActivateListeners(TRUE) /\ UNCHANGED history
  \/ \E ok \in BOOLEAN :
       SetCompletes(ok) /\ history' = [history EXCEPT !.failed = @ \/ ~ok]

SpecGM == InitGM /\ [][NextGM]_vars

----------------------------------------------------------------------------
(* One instance, a player's, given valid dates only, while the GM's client saves
   records; kept: in history.loaded the record setWeather loaded last. The regenerate
   handler is never attached on a player's client (activateListeners), and a player's
   instance issues no save. *)

\* the records the GM's client may have saved
RemoteWeather ==
  {[content |-> content, date |-> date] :
     content \in {SavedContent,
                  Generate(ClimateCold, HumidityModest, SeasonSpring, NoWeather).content},
     date \in DateInputs \cup {NoDate}}

\* the GM's client saves a record: the setting changes under the player's instance
RemoteSave(weatherData) ==
  /\ lastWeatherData' = weatherData
  /\ UNCHANGED <<currentWeather, pendingSets, renderQueued, regenerateListener, last>>

\* what setWeather has loaded last, once it has read weatherData
LoadKept(h, weatherData) ==
  [loaded |-> IF weatherData # NoWeather THEN weatherData ELSE h.loaded]

InitPlayer ==
  \E saved \in SavedWeather \cup {NoWeather} :
    /\ Constructor(saved, FALSE)
    /\ history = LoadKept([loaded |-> NoWeather], saved)

NextPlayer ==
  \/ SetWeather(FALSE) /\ history' = LoadKept(history, lastWeatherData)
  \/ \E currentDate \in ValidDateInputs :
       UpdateDateTime(currentDate, FALSE) /\ UNCHANGED history
  \/ ActivateListeners(FALSE) /\ UNCHANGED history
  \/ \E weatherData \in RemoteWeather : RemoteSave(weatherData) /\ UNCHANGED history

SpecPlayer == InitPlayer /\ [][NextPlayer]_vars

----------------------------------------------------------------------------
(* What the claims are stated with *)

\* a date with its five fields present
Complete(date) == \A f \in DateFields : date[f] # Null /\ date[f] # Undefined

\* the day, the month or the year of two dates differ
DayDiffers(a, b) == a.day # b.day \/ a.month # b.month \/ a.year # b.year

\* the last handler call was updateDateTime on a date
Updated == last.op = "updateDateTime" /\ last.arg # NoDate

\* the last handler call was setWeather, from the constructor or from outside
Bootstrapped == last.op \in {"constructor", "setWeather"}

\* the instance held a dated record when the last handler call began
HeldDated == last.before # NoWeather /\ last.before.date # NoDate

\* the last handler call was a regenerate click with a selection missing
ClickedIncomplete ==
  /\ last.op = "onWeatherRegenerateClick"
  /\ (last.arg.climate = Null \/ last.arg.humidity = Null \/ last.arg.season = Null)

\* the last handler call was a regenerate click with the three selections made
ClickedComplete ==
  /\ last.op = "onWeatherRegenerateClick"
  /\ last.arg.climate # Null /\ last.arg.humidity # Null /\ last.arg.season # Null

\* the last handler call has returned: setWeather and the click handler return without
\* waiting for the save they issue, updateDateTime returns when the save it awaits has
\* completed, and the save in flight issued last is the last call's
Returned ==
  last.op = "updateDateTime" /\ last.writes # <<>> => pendingSets = <<>>

\* the last handler call is over: it has thrown, or it issued no save, or its save
\* has completed (SpecCalls)
CallOver == last.threw \/ history.save # "pending"

\* two dates are both absent, or both present with the same day, month and year
SameDay(a, b) ==
  IF a = NoDate \/ b = NoDate THEN a = b ELSE ~DayDiffers(a, b)

\* two records are both absent, or both present with the same content and the same
\* day, month and year
SameButTime(a, b) ==
  IF a = NoWeather \/ b = NoWeather THEN a = b
  ELSE a.content = b.content /\ SameDay(a.date, b.date)

----------------------------------------------------------------------------
(* The claims *)

\* C1: an updateDateTime call on a client that is not the GM calls generate never and
\* issues no save of the weather record, whether or not the date has changed.
C1_PlayerUpdateNeverSaves ==
  (last.op = "updateDateTime" /\ ~last.gm) => (last.generated = <<>> /\ last.writes = <<>>)

\* C1 witness: a player's updateDateTime that found the date of its record changed
C1_Witness ==
  /\ Updated /\ ~last.gm /\ HeldDated /\ Complete(last.arg)
  /\ DayDiffers(last.before.date, last.arg)
  /\ last.changed /\ ~last.threw

\* C2 (as claimed): on the GM's client, updateDateTime on a complete date whose day,
\* month or year differs from the held record's calls generate with the held record
\* as seed, and saves a record of generated content dated with the incoming date.
C2_MaterialUpdateGenerates ==
  (Updated /\ last.gm /\ HeldDated /\ Complete(last.arg)
     /\ DayDiffers(last.before.date, last.arg))
  => /\ Len(last.generated) = 1
     /\ last.generated[1].previous = last.before
     /\ last.writes = <<currentWeather>>
     /\ currentWeather.date = last.arg

\* C3: updateDateTime called twice in a row on the same date, on the GM's client
\* holding a record: the second call finds the date unchanged, issues no save and
\* only sets the date of the held record.
C3_RepeatedUpdateSavesOnce ==
  (Updated /\ last.gm /\ last.repeat /\ last.before # NoWeather)
  => /\ ~last.changed
     /\ last.writes = <<>>
     /\ last.generated = <<>>
     /\ currentWeather = [last.before EXCEPT !.date = last.arg]

\* C3 witness: the first of the two calls saved, the second ran
C3_Witness ==
  /\ Updated /\ last.gm /\ last.repeat /\ last.priorWrote
  /\ last.before # NoWeather /\ Complete(last.arg) /\ last.rendered

\* C4 (as claimed): hasDateChanged is false on every incoming date that is present
\* and partial, whatever the instance holds, no record and no date included.
C4_PartialDateNeverChanged ==
  (Updated /\ ~Complete(last.arg)) => ~last.changed

\* C5: on two complete dates hasDateChanged is true exactly when the day, the month
\* or the year differs; a difference in second or minute alone gives false.
C5_ChangedIffDayDiffers ==
  (last.op = "hasDateChanged" /\ last.arg # NoDate /\ Complete(last.arg)
     /\ HeldDated /\ Complete(last.before.date))
  => (last.changed <=> DayDiffers(last.before.date, last.arg))

\* C5 witness: two complete dates that differ in second and minute only, found unchanged
C5_Witness ==
  /\ last.op = "hasDateChanged" /\ last.arg # NoDate /\ Complete(last.arg)
  /\ HeldDated /\ Complete(last.before.date)
  /\ last.before.date.second # last.arg.second
  /\ last.before.date.minute # last.arg.minute
  /\ ~DayDiffers(last.before.date, last.arg)
  /\ ~last.changed

\* C6: updateDateTime on a complete date of the same day, month and year as the held
\* record's, on either client: the held record takes the incoming date, generate is
\* not called and no save is issued.
C6_SameDayRefreshesOnly ==
  (Updated /\ Complete(last.arg) /\ HeldDated /\ ~DayDiffers(last.before.date, last.arg))
  => /\ currentWeather = [last.before EXCEPT !.date = last.arg]
     /\ last.generated = <<>>
     /\ last.writes = <<>>

\* C6 witness: the GM's updateDateTime on a later minute of the held record's day
C6_Witness ==
  /\ Updated /\ last.gm /\ Complete(last.arg) /\ HeldDated
  /\ ~DayDiffers(last.before.date, last.arg)
  /\ last.before.date.minute # last.arg.minute
  /\ currentWeather.date = last.arg

\* C7: setWeather on the GM's client with nothing saved calls generate once, with
\* Climate.Cold, Humidity.Modest, Season.Spring and no seed, issues one save, of the
\* generated record, and holds that record.
C7_GMBootstrapGeneratesOnce ==
  (Bootstrapped /\ last.gm /\ last.loaded = NoWeather)
  => /\ last.generated = <<GenerateCall(ClimateCold, HumidityModest, SeasonSpring, NoWeather)>>
     /\ currentWeather = Generate(ClimateCold, HumidityModest, SeasonSpring, NoWeather)
     /\ last.writes = <<currentWeather>>

\* C7 witness: setWeather called on the GM's client while nothing is saved
C7_Witness ==
  /\ last.op = "setWeather" /\ last.gm /\ last.loaded = NoWeather
  /\ Len(last.generated) = 1 /\ Len(last.writes) = 1

\* C8: setWeather on a player's client with nothing saved calls generate never, issues
\* no save and leaves the instance's record as it was: none, from the constructor.
C8_PlayerBootstrapDoesNothing ==
  (Bootstrapped /\ ~last.gm /\ last.loaded = NoWeather)
  => /\ last.generated = <<>>
     /\ last.writes = <<>>
     /\ currentWeather = last.before
     /\ (last.op = "constructor" => currentWeather = NoWeather)

\* C8 witness: setWeather called on a player's client holding no record, nothing saved
C8_Witness ==
  /\ last.op = "setWeather" /\ ~last.gm /\ last.loaded = NoWeather
  /\ last.before = NoWeather /\ currentWeather = NoWeather

\* C9: setWeather with a record saved makes it the instance's record, on either
\* client, calls generate never and issues no save.
C9_BootstrapAdoptsSaved ==
  (Bootstrapped /\ last.loaded # NoWeather)
  => /\ currentWeather = last.loaded
     /\ last.generated = <<>>
     /\ last.writes = <<>>

\* C9 witness: a player's setWeather that replaced the record held by the one saved
C9_Witness ==
  /\ last.op = "setWeather" /\ ~last.gm /\ last.loaded # NoWeather
  /\ last.before # NoWeather /\ last.before # last.loaded
  /\ currentWeather = last.loaded

\* C10: a regenerate click with the climate, the humidity or the season missing calls
\* generate never, issues no save and leaves the instance's record as it was.
C10_IncompleteClickRejected ==
  ClickedIncomplete
  => /\ last.generated = <<>>
     /\ last.writes = <<>>
     /\ currentWeather = last.before

\* C10 witness: a click with the climate alone missing, on an instance holding a record
C10_Witness ==
  /\ ClickedIncomplete
  /\ last.arg.climate = Null /\ last.arg.humidity # Null /\ last.arg.season # Null
  /\ last.before # NoWeather

\* C11 (as claimed): a regenerate click on a client that is not the GM at the click
\* calls generate never and issues no save, whatever the client was when the handler
\* was attached.
C11_PlayerClickNeverSaves ==
  (last.op = "onWeatherRegenerateClick" /\ ~last.gm)
  => (last.generated = <<>> /\ last.writes = <<>>)

\* C12: a regenerate click on the GM's client with the three selections made calls
\* generate once with the selections and the record held as seed, makes the result the
\* instance's record and issues one save of it, the record held being dated or not.
C12_GMClickRegenerates ==
  (ClickedComplete /\ last.gm)
  => /\ last.generated = <<GenerateCall(last.arg.climate, last.arg.humidity,
                                        last.arg.season, last.before)>>
     /\ currentWeather = Generate(last.arg.climate, last.arg.humidity, last.arg.season,
                                  last.before)
     /\ last.writes = <<currentWeather>>

\* C12 witness: the GM's click with the three selections made, on an instance holding
\* a dated record
C12_Witness ==
  /\ ClickedComplete /\ last.gm /\ HeldDated
  /\ last.generated # <<>> /\ last.writes = <<currentWeather>>

\* C13 (as claimed): after an updateDateTime call on a date, on an instance holding a
\* record, the date of the record is the incoming one, on either client and whether
\* the date was found changed or not.
C13_UpdateAlwaysAdoptsDate ==
  (Updated /\ last.before # NoWeather /\ Returned)
  => (currentWeather # NoWeather /\ currentWeather.date = last.arg)

\* C14 (as claimed): when the save issued by an updateDateTime call or by a regenerate
\* click has failed, the instance's record is the one it held when the call began.
C14_FailedSaveKeepsRecord ==
  (last.op \in {"updateDateTime", "onWeatherRegenerateClick"} /\ history.save = "failed")
  => currentWeather = last.before

\* C15 (as claimed): no handler call that issued a save has returned while a save is
\* still in flight.
C15_ReturnsAfterSave ==
  (last.writes # <<>> /\ Returned) => pendingSets = <<>>

\* C16 (as claimed): on the GM's instance given dates only, an updateDateTime call on
\* a valid date issues a save exactly when its day, month or year differ from those of
\* the last valid date the instance was given before, whatever invalid dates came
\* in between.
C16_CommitIffDayDiffersFromLastValid ==
  (Updated /\ last.gm /\ Complete(last.arg) /\ history.prior # NoDate)
  => (last.writes # <<>> <=> DayDiffers(history.prior, last.arg))

\* C17 (as claimed): an updateDateTime call on a date, on the GM's client and on an
\* instance holding no record, finds the date changed, throws nothing, and leaves the
\* instance with a record dated with the incoming date, saved.
C17_NoRecordUpdateCommits ==
  (Updated /\ last.gm /\ last.before = NoWeather)
  => /\ last.changed /\ ~last.threw
     /\ currentWeather # NoWeather
     /\ currentWeather.date = last.arg
     /\ last.writes = <<currentWeather>>

\* C18 (as claimed): an updateDateTime call on a date that is over has reached
\* this.render(), whichever branch it took; a call with no date reaches none and
\* leaves the instance's record as it was.
C18_UpdateRenders ==
  /\ (Updated /\ CallOver) => history.rendered
  /\ (last.op = "updateDateTime" /\ last.arg = NoDate)
     => (~history.rendered /\ currentWeather = last.before)

\* C19 (as claimed): on the GM's instance given valid dates only, whenever no save is
\* in flight and none has failed, the record saved equals the instance's record but
\* for the time of day, after any interleaving of setWeather, updateDateTime and
\* regenerate clicks.
C19_StoreMatchesRecord ==
  (pendingSets = <<>> /\ ~history.failed) => SameButTime(lastWeatherData, currentWeather)

\* C19 without the stale load: the same holds as long as setWeather has not loaded
\* the saved record while a save was in flight.
C19_StoreMatchesRecordUnlessStale ==
  (pendingSets = <<>> /\ ~history.failed /\ ~history.stale)
  => SameButTime(lastWeatherData, currentWeather)

\* C20: on a player's instance given valid dates only, the instance's record, when
\* there is one, has the content and the day, month and year of the record setWeather
\* loaded last, and any handler call but setWeather leaves the content and the day,
\* month and year of the record as they were: updateDateTime moves the time of day
\* at most.
C20_PlayerRecordIsLoaded ==
  /\ currentWeather # NoWeather
     => (history.loaded # NoWeather /\ SameButTime(currentWeather, history.loaded))
  /\ ~Bootstrapped => SameButTime(currentWeather, last.before)

\* C20 witness: the GM has saved a record for another day, and the player's
\* updateDateTime has moved the minute alone of the record loaded before
C20_Witness ==
  /\ last.op = "updateDateTime" /\ ~last.gm /\ ~last.changed
  /\ currentWeather # last.before
  /\ currentWeather # history.loaded
  /\ SameButTime(currentWeather, history.loaded)
  /\ lastWeatherData # NoWeather /\ ~SameButTime(lastWeatherData, currentWeather)

====
